---- MODULE Spec2Model ----
(***************************************************************************)
(* AudioManager of src/services/audioService.ts: the playback controller   *)
(* (device context, cached buffer, current source node, shared gain node)  *)
(* and the asynchronous init() whose only suspension point is the await of *)
(* ctx.resume().  Source nodes ever created are kept in `nodes` so that    *)
(* the number of sessions that are started and not stopped can be counted. *)
(* Gain values are in tenths (10 is the gain 1.0).                         *)
(***************************************************************************)
EXTENDS Integers, Sequences, FiniteSets

VARIABLES
  ctx,               \* this.ctx is not null
  ctxState,          \* this.ctx.state: "none" without a context
  buffer,            \* this.buffer: NoBuffer, or the identity of the synthesized buffer
  source,            \* this.source: NoSource, or an index into nodes
  isPlaying,         \* this.isPlaying
  gainNode,          \* this.gainNode is not null
  gainValue,         \* this.gainNode.gain.value, in tenths
  nodes,             \* every AudioBufferSourceNode created so far
  synthCount,        \* number of generateDiscoLoop() calls so far
  initPc,            \* position of every init() call
  lastOp,            \* the step taken last
  prevOp,            \* the step taken before it
  lastArg,           \* the argument of the most recent setVolume(), 0 before any
  raised,            \* the last step surfaced an error to its caller
  resumeFailedSince, \* an init() was rejected and no init() has completed since
  \* generateDiscoLoop(), one call of it
  synthPc,           \* "idle", "start", "loop" or "returned"
  sampleRate,        \* this.ctx.sampleRate
  leftLen,           \* left.length
  rightLen,          \* right.length
  sIdx,              \* the loop variable i
  beatRoundedDown,   \* t % 0.5 of the sample computed last was rounded below 0.15
  kickEvaluated,     \* the kick branch was taken for the sample computed last
  kick,              \* kick, hat, bass of the sample computed last, in thousandths
  hat,
  bass,
  bassFreq,          \* bassFreq of the sample computed last, in hundredths of a hertz
  leftSample,        \* left[i] and right[i] written last, in thousandths
  rightSample,
  \* App of src/App.tsx
  step,              \* step: "API_CHECK", "CREATE_ASSET", "ANIMATE" or "RESULT"
  generatedImage,    \* generatedImage is not null
  videoUrl,          \* videoUrl is not null
  isLoading,         \* isLoading
  error,             \* error is not null
  isMusicEnabled,    \* isMusicEnabled
  audioManagerRef,   \* audioManagerRef.current is not null
  tipInterval,       \* the interval of handleAnimate is set and not cleared
  pending,           \* the generation awaited: "none", "image" or "video"
  videoPlaying,      \* the <video> element is playing
  waiting,           \* the init() calls a handler awaits before it calls play()
  stopRequested,     \* a handler called stop() and no video-play or music-on came since
  appOp              \* the handler or event that ran last

audioVars == <<ctx, ctxState, buffer, source, isPlaying, gainNode, gainValue, nodes,
               synthCount, initPc, lastOp, prevOp, lastArg, raised, resumeFailedSince>>

synthVars == <<synthPc, sampleRate, leftLen, rightLen, sIdx, beatRoundedDown,
               kickEvaluated, kick, hat, bass, bassFreq, leftSample, rightSample>>

appVars == <<step, generatedImage, videoUrl, isLoading, error, isMusicEnabled,
             audioManagerRef, tipInterval, pending, videoPlaying, waiting,
             stopRequested, appOp>>

vars == <<audioVars, synthVars, appVars>>

controller == <<ctx, ctxState, buffer, source, isPlaying, gainNode, gainValue, nodes>>

\* Bounds of the model.
MaxInits == 3
MaxSources == 3

\* Arguments given to setVolume, in tenths: -0.5, 0.0, 0.5, 1.0, 1.5.
Volumes == {-5, 0, 5, 10, 15}

\* The default value of a new GainNode's gain (1.0).
UnityGain == 10

NoBuffer == 0
NoSource == 0

InitCalls == 1..MaxInits

\* The session nodes that are started and not yet stopped.
ActiveSessions(ns) == {n \in 1..Len(ns) : ns[n].started /\ ~ns[n].stopped}

\* No call of generateDiscoLoop() is being followed.
SynthIdle ==
  /\ synthPc = "idle"
  /\ sampleRate = 0
  /\ leftLen = 0
  /\ rightLen = 0
  /\ sIdx = 0
  /\ beatRoundedDown = FALSE
  /\ kickEvaluated = FALSE
  /\ kick = 0
  /\ hat = 0
  /\ bass = 0
  /\ bassFreq = 0
  /\ leftSample = 0
  /\ rightSample = 0

\* The App is not followed: the AudioManager is driven directly.
AppIdle ==
  /\ step = "RESULT"
  /\ generatedImage = TRUE
  /\ videoUrl = TRUE
  /\ isLoading = FALSE
  /\ error = FALSE
  /\ isMusicEnabled = TRUE
  /\ audioManagerRef = TRUE
  /\ tipInterval = FALSE
  /\ pending = "none"
  /\ videoPlaying = FALSE
  /\ waiting = [i \in InitCalls |-> FALSE]
  /\ stopRequested = FALSE
  /\ appOp = "none"

\* new AudioContextClass(): the device may or may not exist, and a new context
\* is suspended or running as the platform's autoplay policy decides.
Init ==
  /\ SynthIdle
  /\ AppIdle
  /\ ctx \in BOOLEAN
  /\ ctxState \in (IF ctx THEN {"suspended", "running"} ELSE {"none"})
  /\ buffer = NoBuffer
  /\ source = NoSource
  /\ isPlaying = FALSE
  /\ gainNode = ctx
  /\ gainValue = UnityGain
  /\ nodes = <<>>
  /\ synthCount = 0
  /\ initPc = [i \in InitCalls |-> "idle"]
  /\ lastOp = "constructor"
  /\ prevOp = "constructor"
  /\ lastArg = 0
  /\ raised = FALSE
  /\ resumeFailedSince = FALSE

\* A test of this.buffer that never finds the cached buffer.
NeedsBuffer_always(b) == TRUE

\* if (!this.buffer)
NeedsBuffer(b) == b = NoBuffer

\* if (!this.buffer) this.buffer = this.generateDiscoLoop(): the buffer after it.
EnsuredBuffer(b, count) == IF NeedsBuffer(b) THEN count + 1 ELSE b

EnsuredCount(b, count) == IF NeedsBuffer(b) THEN count + 1 ELSE count

\* The next init() call to be made: calls are numbered in the order they start.
NextInit(i) == initPc[i] = "idle" /\ \A j \in 1..(i - 1) : initPc[j] # "idle"

\* init() without the guard on this.ctx: reading this.ctx.state throws.
init_noCtxCheck(i) ==
  /\ NextInit(i)
  /\ lastOp' = "init"
  /\ prevOp' = lastOp
  /\ lastArg' = lastArg
  /\ IF ~ctx
       THEN /\ initPc' = [initPc EXCEPT ![i] = "rejected"]
            /\ raised' = TRUE
            /\ UNCHANGED <<buffer, synthCount, resumeFailedSince>>
       ELSE IF ctxState = "suspended"
         THEN /\ initPc' = [initPc EXCEPT ![i] = "awaiting"]
              /\ raised' = FALSE
              /\ UNCHANGED <<buffer, synthCount, resumeFailedSince>>
         ELSE /\ buffer' = EnsuredBuffer(buffer, synthCount)
              /\ synthCount' = EnsuredCount(buffer, synthCount)
              /\ initPc' = [initPc EXCEPT ![i] = "done"]
              /\ raised' = FALSE
              /\ resumeFailedSince' = FALSE
  /\ UNCHANGED <<ctx, ctxState, source, isPlaying, gainNode, gainValue, nodes>>

\* init() that calls this.ctx.resume() without awaiting it.
init_noAwait(i) ==
  /\ NextInit(i)
  /\ lastOp' = "init"
  /\ prevOp' = lastOp
  /\ lastArg' = lastArg
  /\ raised' = FALSE
  /\ initPc' = [initPc EXCEPT ![i] = "done"]
  /\ IF ~ctx
       THEN UNCHANGED <<buffer, synthCount, resumeFailedSince>>
       ELSE /\ buffer' = EnsuredBuffer(buffer, synthCount)
            /\ synthCount' = EnsuredCount(buffer, synthCount)
            /\ resumeFailedSince' = FALSE
  /\ UNCHANGED <<ctx, ctxState, source, isPlaying, gainNode, gainValue, nodes>>

\* init() up to its await, or to its end when it does not await.
init(i) ==
  /\ NextInit(i)
  /\ lastOp' = "init"
  /\ prevOp' = lastOp
  /\ lastArg' = lastArg
  /\ raised' = FALSE
  /\ IF ~ctx
       THEN /\ initPc' = [initPc EXCEPT ![i] = "done"]
            /\ UNCHANGED <<buffer, synthCount, resumeFailedSince>>
       ELSE IF ctxState = "suspended"
         THEN /\ initPc' = [initPc EXCEPT ![i] = "awaiting"]
              /\ UNCHANGED <<buffer, synthCount, resumeFailedSince>>
         ELSE /\ buffer' = EnsuredBuffer(buffer, synthCount)
              /\ synthCount' = EnsuredCount(buffer, synthCount)
              /\ initPc' = [initPc EXCEPT ![i] = "done"]
              /\ resumeFailedSince' = FALSE
  /\ UNCHANGED <<ctx, ctxState, source, isPlaying, gainNode, gainValue, nodes>>

\* The promise of ctx.resume() is fulfilled: the device runs, and init()
\* continues after its await in the same turn.
resumeResolved(i) ==
  /\ initPc[i] = "awaiting"
  /\ ctxState' = "running"
  /\ buffer' = EnsuredBuffer(buffer, synthCount)
  /\ synthCount' = EnsuredCount(buffer, synthCount)
  /\ initPc' = [initPc EXCEPT ![i] = "done"]
  /\ lastOp' = "resumeResolved"
  /\ prevOp' = lastOp
  /\ lastArg' = lastArg
  /\ raised' = FALSE
  /\ resumeFailedSince' = FALSE
  /\ UNCHANGED <<ctx, source, isPlaying, gainNode, gainValue, nodes>>

\* The promise of ctx.resume() is rejected while the device is suspended:
\* nothing catches it, the promise of init() is rejected with the same error.
resumeRejected(i) ==
  /\ initPc[i] = "awaiting"
  /\ ctxState = "suspended"
  /\ initPc' = [initPc EXCEPT ![i] = "rejected"]
  /\ lastOp' = "resumeRejected"
  /\ prevOp' = lastOp
  /\ lastArg' = lastArg
  /\ raised' = TRUE
  /\ resumeFailedSince' = TRUE
  /\ UNCHANGED <<ctx, ctxState, buffer, source, isPlaying, gainNode, gainValue,
                 nodes, synthCount>>

\* source.stop() throws InvalidStateError on a node that was never started.
SourceStopThrows(n) == ~n.started

\* The try block of stop(): source.stop(); source.disconnect(); an error of
\* source.stop() skips the disconnect and is caught.
StopNodes(ns, s) ==
  IF s = NoSource \/ SourceStopThrows(ns[s])
    THEN ns
    ELSE [ns EXCEPT ![s].stopped = TRUE, ![s].connected = FALSE]

\* source = ctx.createBufferSource(); buffer, loop, connect(gainNode), start(0)
NewSource(b) == [buffer |-> b, loop |-> TRUE, connected |-> TRUE,
                 started |-> TRUE, stopped |-> FALSE]

\* stop() that stops the node but keeps this.source.
stop_keepsSource ==
  /\ nodes' = StopNodes(nodes, source)
  /\ isPlaying' = FALSE
  /\ lastOp' = "stop"
  /\ prevOp' = lastOp
  /\ lastArg' = lastArg
  /\ raised' = FALSE
  /\ UNCHANGED <<ctx, ctxState, buffer, source, gainNode, gainValue, synthCount,
                 initPc, resumeFailedSince>>

\* stop() that also releases the cached buffer.
stop_clearsBuffer ==
  /\ nodes' = StopNodes(nodes, source)
  /\ source' = NoSource
  /\ isPlaying' = FALSE
  /\ buffer' = NoBuffer
  /\ lastOp' = "stop"
  /\ prevOp' = lastOp
  /\ lastArg' = lastArg
  /\ raised' = FALSE
  /\ UNCHANGED <<ctx, ctxState, gainNode, gainValue, synthCount,
                 initPc, resumeFailedSince>>

stop ==
  /\ nodes' = StopNodes(nodes, source)
  /\ source' = NoSource
  /\ isPlaying' = FALSE
  /\ lastOp' = "stop"
  /\ prevOp' = lastOp
  /\ lastArg' = lastArg
  /\ raised' = FALSE
  /\ UNCHANGED <<ctx, ctxState, buffer, gainNode, gainValue, synthCount,
                 initPc, resumeFailedSince>>

\* play() without its call of this.stop().
play_noStop ==
  /\ lastOp' = "play"
  /\ prevOp' = lastOp
  /\ lastArg' = lastArg
  /\ raised' = FALSE
  /\ IF ~ctx \/ buffer = NoBuffer \/ ~gainNode
       THEN UNCHANGED <<nodes, source, isPlaying>>
       ELSE /\ Len(nodes) < MaxSources
            /\ nodes' = Append(nodes, NewSource(buffer))
            /\ source' = Len(nodes) + 1
            /\ isPlaying' = TRUE
  /\ UNCHANGED <<ctx, ctxState, buffer, gainNode, gainValue, synthCount,
                 initPc, resumeFailedSince>>

\* play() without the guard on this.buffer.
play_noBufferCheck ==
  /\ lastOp' = "play"
  /\ prevOp' = lastOp
  /\ lastArg' = lastArg
  /\ raised' = FALSE
  /\ IF ~ctx \/ ~gainNode
       THEN UNCHANGED <<nodes, source, isPlaying>>
       ELSE /\ Len(nodes) < MaxSources
            /\ nodes' = Append(StopNodes(nodes, source), NewSource(buffer))
            /\ source' = Len(nodes) + 1
            /\ isPlaying' = TRUE
  /\ UNCHANGED <<ctx, ctxState, buffer, gainNode, gainValue, synthCount,
                 initPc, resumeFailedSince>>

play ==
  /\ lastOp' = "play"
  /\ prevOp' = lastOp
  /\ lastArg' = lastArg
  /\ raised' = FALSE
  /\ IF ~ctx \/ buffer = NoBuffer \/ ~gainNode
       THEN UNCHANGED <<nodes, source, isPlaying>>
       ELSE /\ Len(nodes) < MaxSources
            /\ nodes' = Append(StopNodes(nodes, source), NewSource(buffer))
            /\ source' = Len(nodes) + 1
            /\ isPlaying' = TRUE
  /\ UNCHANGED <<ctx, ctxState, buffer, gainNode, gainValue, synthCount,
                 initPc, resumeFailedSince>>

\* setVolume() that tests the value for truthiness, and so ignores 0.
setVolume_ignoresZero(val) ==
  /\ gainValue' = IF gainNode /\ val # 0 THEN val ELSE gainValue
  /\ lastOp' = "setVolume"
  /\ prevOp' = lastOp
  /\ lastArg' = val
  /\ raised' = FALSE
  /\ UNCHANGED <<ctx, ctxState, buffer, source, isPlaying, gainNode, nodes,
                 synthCount, initPc, resumeFailedSince>>

setVolume(val) ==
  /\ gainValue' = IF gainNode THEN val ELSE gainValue
  /\ lastOp' = "setVolume"
  /\ prevOp' = lastOp
  /\ lastArg' = val
  /\ raised' = FALSE
  /\ UNCHANGED <<ctx, ctxState, buffer, source, isPlaying, gainNode, nodes,
                 synthCount, initPc, resumeFailedSince>>

\* The platform suspends a running device (this.ctx.state becomes 'suspended').
platformSuspend ==
  /\ ctx
  /\ ctxState = "running"
  /\ ctxState' = "suspended"
  /\ lastOp' = "platformSuspend"
  /\ prevOp' = lastOp
  /\ lastArg' = lastArg
  /\ raised' = FALSE
  /\ UNCHANGED <<ctx, buffer, source, isPlaying, gainNode, gainValue, nodes,
                 synthCount, initPc, resumeFailedSince>>

Next ==
  \/ (\E i \in InitCalls : init(i)) /\ UNCHANGED <<synthVars, appVars>>
  \/ (\E i \in InitCalls : resumeResolved(i)) /\ UNCHANGED <<synthVars, appVars>>
  \/ (\E i \in InitCalls : resumeRejected(i)) /\ UNCHANGED <<synthVars, appVars>>
  \/ play /\ UNCHANGED <<synthVars, appVars>>
  \/ stop /\ UNCHANGED <<synthVars, appVars>>
  \/ (\E val \in Volumes : setVolume(val)) /\ UNCHANGED <<synthVars, appVars>>
  \/ platformSuspend /\ UNCHANGED <<synthVars, appVars>>

Spec == Init /\ [][Next]_vars

(***************************************************************************)
(* generateDiscoLoop().  The sample i is at t = i / sampleRate, and the    *)
(* comparisons of times are made on integers.  The code computes t, t %    *)
(* 0.5 and t % 0.25 in doubles: against 0.15 and 0.05, which are no        *)
(* doubles, the rounding decides the comparison when the exact time is on  *)
(* the threshold (at 44100 Hz, t = 0.15 compares as not below 0.15, and    *)
(* t = 1.15 gives t % 0.5 = 0.1499999999999999, below it), so there the    *)
(* outcome is either one.  The thresholds 1.0, 1.25, 1.75 and the quarter  *)
(* seconds are doubles, and a time on one of them is computed exactly.     *)
(* Sample values are in thousandths.  Math.sin, Math.exp and Math.random   *)
(* are not computed: each returns any value of a grid over its range,      *)
(* except at the argument 0, where sin is 0 and exp is 1.                  *)
(***************************************************************************)

\* Sample rates are 4, 8, ..., 4 * MaxRateStep samples per second.
MaxRateStep == 10

SampleRates == {4 * k : k \in 1..MaxRateStep}

\* The sample value 1.0.
One == 1000

\* const duration = 5.0
Duration == 5

\* bassFreq, in hundredths of a hertz: 49.00, 98.00, 73.42
G1 == 4900
OctaveUp == 9800
D2 == 7342

\* Values of Math.sin(x), and of Math.random() * 2 - 1.
UnitGrid == {-1000, -500, 0, 500, 999}

\* Values of Math.exp(-x) for x > 0.
DecayGrid == {500, 1000}

\* A length taken from beatLen = 0.5 * sampleRate instead of the duration.
BufferLength_oneBeat(sr) == sr \div 2

\* const length = sampleRate * duration
BufferLength(sr) == sr * Duration

\* beatTime = t % 0.5, as beatTime * 2 * sampleRate
BeatPos(i, sr) == (2 * i) % sr

\* The rounding of t % 0.5 can fall below 0.15 when the exact value is 0.15.
BeatRoundings(i, sr) == IF 10 * BeatPos(i, sr) = 3 * sr THEN BOOLEAN ELSE {FALSE}

\* A kick window of 0.35 s.
KickActive_wide(i, sr, down) == 10 * BeatPos(i, sr) < 7 * sr

\* if (beatTime < 0.15)
KickActive(i, sr, down) ==
  \/ 10 * BeatPos(i, sr) < 3 * sr
  \/ 10 * BeatPos(i, sr) = 3 * sr /\ down

\* Math.sin(2 * Math.PI * freq * beatTime)
KickSines(i, sr) == IF BeatPos(i, sr) = 0 THEN {0} ELSE UnitGrid

\* Math.exp(-beatTime * 20)
KickAmps(i, sr) == IF BeatPos(i, sr) = 0 THEN {One} ELSE DecayGrid

\* kick = Math.sin(...) * amp inside the window, 0 outside it
Kick(i, sr, down, sine, amp) ==
  IF KickActive(i, sr, down) THEN (sine * amp) \div One ELSE 0

\* halfBeatTime = t % 0.25, as halfBeatTime * 4 * sampleRate
HalfBeatPos(i, sr) == (4 * i) % sr

\* isOffBeat = Math.floor(t / 0.25) % 2 !== 0
IsOffBeat(i, sr) == ((4 * i) \div sr) % 2 # 0

\* The rounding of t % 0.25 can fall below 0.05 when the exact value is 0.05.
HalfBeatRoundings(i, sr) == IF 5 * HalfBeatPos(i, sr) = sr THEN BOOLEAN ELSE {FALSE}

\* if (isOffBeat && halfBeatTime < 0.05)
HatActive(i, sr, down) ==
  /\ IsOffBeat(i, sr)
  /\ \/ 5 * HalfBeatPos(i, sr) < sr
     \/ 5 * HalfBeatPos(i, sr) = sr /\ down

\* Math.exp(-halfBeatTime * 80)
HatDecays(i, sr) == IF HalfBeatPos(i, sr) = 0 THEN {One} ELSE DecayGrid

\* hat = noise * Math.exp(-halfBeatTime * 80) * 0.3
Hat(i, sr, down, noise, decay) ==
  IF HatActive(i, sr, down) THEN (((noise * decay) \div One) * 3) \div 10 ELSE 0

\* measurePos = t % 2.0, as measurePos * sampleRate
MeasurePos(i, sr) == i % (2 * sr)

\* let bassFreq = 49.00, and the two ifs that replace it
BassFreq(i, sr) ==
  LET mp == MeasurePos(i, sr)
      first == IF mp > sr /\ 4 * mp < 5 * sr THEN OctaveUp ELSE G1
  IN  IF 4 * mp > 7 * sr THEN D2 ELSE first

\* bassPhase = (t * bassFreq) % 1.0, as bassPhase * 100 * sampleRate
BassPhase(i, sr) == (i * BassFreq(i, sr)) % (100 * sr)

\* bass = (bassPhase * 2 - 1) * 0.4
Bass(i, sr) == ((2 * BassPhase(i, sr) - 100 * sr) * 4) \div sr

\* sample = (kick * 0.8) + (hat * 0.6) + (bass * 0.5)
Mix(k, h, b) == (8 * k + 6 * h + 5 * b) \div 10

\* sample = Math.max(-1, Math.min(1, sample))
Limiter(x) == IF x > One THEN One ELSE IF x < -One THEN -One ELSE x

\* generateDiscoLoop() is entered on a device that exists.
SynthInit ==
  /\ ctx = TRUE
  /\ ctxState = "running"
  /\ buffer = NoBuffer
  /\ source = NoSource
  /\ isPlaying = FALSE
  /\ gainNode = TRUE
  /\ gainValue = UnityGain
  /\ nodes = <<>>
  /\ synthCount = 1
  /\ initPc = [i \in InitCalls |-> IF i = 1 THEN "running" ELSE "idle"]
  /\ lastOp = "init"
  /\ prevOp = "constructor"
  /\ lastArg = 0
  /\ raised = FALSE
  /\ resumeFailedSince = FALSE
  /\ synthPc = "start"
  /\ sampleRate \in SampleRates
  /\ leftLen = 0
  /\ rightLen = 0
  /\ sIdx = 0
  /\ beatRoundedDown = FALSE
  /\ kickEvaluated = FALSE
  /\ kick = 0
  /\ hat = 0
  /\ bass = 0
  /\ bassFreq = 0
  /\ leftSample = 0
  /\ rightSample = 0
  /\ AppIdle

\* buffer = ctx.createBuffer(2, length, sampleRate) and its two channels
createBuffer ==
  /\ synthPc = "start"
  /\ synthPc' = "loop"
  /\ leftLen' = BufferLength(sampleRate)
  /\ rightLen' = BufferLength(sampleRate)
  /\ sIdx' = 0
  /\ UNCHANGED <<sampleRate, beatRoundedDown, kickEvaluated, kick, hat, bass,
                 bassFreq, leftSample, rightSample>>
  /\ UNCHANGED <<audioVars, appVars>>

\* One turn of the loop: the sample of index sIdx is computed and written.
writeSample ==
  /\ synthPc = "loop"
  /\ sIdx < leftLen
  /\ \E sine \in KickSines(sIdx, sampleRate), amp \in KickAmps(sIdx, sampleRate),
        noise \in UnitGrid, decay \in HatDecays(sIdx, sampleRate),
        down \in BeatRoundings(sIdx, sampleRate),
        hatDown \in HalfBeatRoundings(sIdx, sampleRate) :
       LET k == Kick(sIdx, sampleRate, down, sine, amp)
           h == Hat(sIdx, sampleRate, hatDown, noise, decay)
           b == Bass(sIdx, sampleRate)
           sample == Limiter(Mix(k, h, b))
       IN  /\ kickEvaluated' = KickActive(sIdx, sampleRate, down)
           /\ beatRoundedDown' = down
           /\ kick' = k
           /\ hat' = h
           /\ bass' = b
           /\ bassFreq' = BassFreq(sIdx, sampleRate)
           /\ leftSample' = sample
           /\ rightSample' = sample
  /\ sIdx' = sIdx + 1
  /\ UNCHANGED <<synthPc, sampleRate, leftLen, rightLen>>
  /\ UNCHANGED <<audioVars, appVars>>

\* The loop ends and the buffer is returned.
returnBuffer ==
  /\ synthPc = "loop"
  /\ sIdx >= leftLen
  /\ synthPc' = "returned"
  /\ UNCHANGED <<sampleRate, leftLen, rightLen, sIdx, beatRoundedDown,
                 kickEvaluated, kick, hat, bass, bassFreq, leftSample,
                 rightSample>>
  /\ UNCHANGED <<audioVars, appVars>>

SynthNext ==
  \/ createBuffer
  \/ writeSample
  \/ returnBuffer

SynthSpec == SynthInit /\ [][SynthNext]_vars

(***************************************************************************)
(* App: the handlers of src/App.tsx that drive the generations and the     *)
(* AudioManager.  A handler that awaits init() continues, once init() has  *)
(* completed, before any other handler or event runs.  The effect on       *)
(* [step] runs with the handler that changes the step.                     *)
(***************************************************************************)

\* The App is mounted: no AudioManager exists yet.
AppInit ==
  /\ SynthIdle
  /\ ctx = FALSE
  /\ ctxState = "none"
  /\ buffer = NoBuffer
  /\ source = NoSource
  /\ isPlaying = FALSE
  /\ gainNode = FALSE
  /\ gainValue = UnityGain
  /\ nodes = <<>>
  /\ synthCount = 0
  /\ initPc = [i \in InitCalls |-> "idle"]
  /\ lastOp = "none"
  /\ prevOp = "none"
  /\ lastArg = 0
  /\ raised = FALSE
  /\ resumeFailedSince = FALSE
  /\ step = "API_CHECK"
  /\ generatedImage = FALSE
  /\ videoUrl = FALSE
  /\ isLoading = FALSE
  /\ error = FALSE
  /\ isMusicEnabled = TRUE
  /\ audioManagerRef = FALSE
  /\ tipInterval = FALSE
  /\ pending = "none"
  /\ videoPlaying = FALSE
  /\ waiting = [i \in InitCalls |-> FALSE]
  /\ stopRequested = FALSE
  /\ appOp = "mount"

\* A handler is past its await of init() and has not yet continued.
ContinuationReady == \E i \in InitCalls : waiting[i] /\ initPc[i] = "done"

\* audioManagerRef.current = new AudioManager()
newAudioManager ==
  /\ ctx' \in BOOLEAN
  /\ ctxState' \in (IF ctx' THEN {"suspended", "running"} ELSE {"none"})
  /\ gainNode' = ctx'
  /\ gainValue' = UnityGain
  /\ lastOp' = "constructor"
  /\ prevOp' = lastOp
  /\ UNCHANGED <<buffer, source, isPlaying, nodes, synthCount, initPc, lastArg,
                 raised, resumeFailedSince>>

\* The effect on [step], run when the step changes to `to`: the cleanup stops
\* the manager that exists, and a manager is created on reaching RESULT
\* without one.
StepEffect(to) ==
  IF audioManagerRef
    THEN stop /\ UNCHANGED audioManagerRef
    ELSE IF to = "RESULT"
      THEN newAudioManager /\ audioManagerRef' = TRUE
      ELSE UNCHANGED <<audioVars, audioManagerRef>>

\* initCheck or handleApiSelection finds a key.
apiKeyValidated ==
  /\ ~ContinuationReady
  /\ step = "API_CHECK"
  /\ step' = "CREATE_ASSET"
  /\ StepEffect("CREATE_ASSET")
  /\ appOp' = "apiKeyValidated"
  /\ UNCHANGED <<generatedImage, videoUrl, isLoading, error, isMusicEnabled,
                 tipInterval, pending, videoPlaying, waiting, stopRequested>>
  /\ UNCHANGED synthVars

\* handleGenerateImage up to its await
handleGenerateImage ==
  /\ ~ContinuationReady
  /\ step = "CREATE_ASSET"
  /\ ~isLoading
  /\ isLoading' = TRUE
  /\ error' = FALSE
  /\ pending' = "image"
  /\ appOp' = "handleGenerateImage"
  /\ UNCHANGED <<step, generatedImage, videoUrl, isMusicEnabled, audioManagerRef,
                 tipInterval, videoPlaying, waiting, stopRequested>>
  /\ UNCHANGED <<audioVars, synthVars>>

\* handleGenerateImage after generateCatImage is fulfilled
imageGenerated ==
  /\ ~ContinuationReady
  /\ pending = "image"
  /\ generatedImage' = TRUE
  /\ step' = "ANIMATE"
  /\ (IF step # "ANIMATE" THEN StepEffect("ANIMATE")
                          ELSE UNCHANGED <<audioVars, audioManagerRef>>)
  /\ isLoading' = FALSE
  /\ pending' = "none"
  /\ appOp' = "imageGenerated"
  /\ UNCHANGED <<videoUrl, error, isMusicEnabled, tipInterval, videoPlaying,
                 waiting, stopRequested>>
  /\ UNCHANGED synthVars

\* handleGenerateImage after generateCatImage is rejected
imageFailed ==
  /\ ~ContinuationReady
  /\ pending = "image"
  /\ error' = TRUE
  /\ isLoading' = FALSE
  /\ pending' = "none"
  /\ appOp' = "imageFailed"
  /\ UNCHANGED <<step, generatedImage, videoUrl, isMusicEnabled, audioManagerRef,
                 tipInterval, videoPlaying, waiting, stopRequested>>
  /\ UNCHANGED <<audioVars, synthVars>>

\* The back button of the ANIMATE step: setStep(AppStep.CREATE_ASSET)
goBack ==
  /\ ~ContinuationReady
  /\ step = "ANIMATE"
  /\ step' = "CREATE_ASSET"
  /\ StepEffect("CREATE_ASSET")
  /\ appOp' = "goBack"
  /\ UNCHANGED <<generatedImage, videoUrl, isLoading, error, isMusicEnabled,
                 tipInterval, pending, videoPlaying, waiting, stopRequested>>
  /\ UNCHANGED synthVars

\* handleAnimate up to its await
handleAnimate ==
  /\ ~ContinuationReady
  /\ step = "ANIMATE"
  /\ ~isLoading
  /\ appOp' = "handleAnimate"
  /\ IF ~generatedImage
       THEN UNCHANGED <<isLoading, tipInterval, error, pending>>
       ELSE /\ isLoading' = TRUE
            /\ tipInterval' = TRUE
            /\ error' = FALSE
            /\ pending' = "video"
  /\ UNCHANGED <<step, generatedImage, videoUrl, isMusicEnabled, audioManagerRef,
                 videoPlaying, waiting, stopRequested>>
  /\ UNCHANGED <<audioVars, synthVars>>

\* handleAnimate after generateDancingVideo is fulfilled
videoGenerated ==
  /\ ~ContinuationReady
  /\ pending = "video"
  /\ videoUrl' = TRUE
  /\ step' = "RESULT"
  /\ (IF step # "RESULT" THEN StepEffect("RESULT")
                         ELSE UNCHANGED <<audioVars, audioManagerRef>>)
  /\ tipInterval' = FALSE
  /\ isLoading' = FALSE
  /\ pending' = "none"
  /\ videoPlaying' = FALSE
  /\ appOp' = "videoGenerated"
  /\ UNCHANGED <<generatedImage, error, isMusicEnabled, waiting, stopRequested>>
  /\ UNCHANGED synthVars

\* handleAnimate whose finally block is missing.
videoFailed_noFinally ==
  /\ ~ContinuationReady
  /\ pending = "video"
  /\ error' = TRUE
  /\ pending' = "none"
  /\ appOp' = "videoFailed"
  /\ UNCHANGED <<step, generatedImage, videoUrl, isLoading, isMusicEnabled,
                 audioManagerRef, tipInterval, videoPlaying, waiting,
                 stopRequested>>
  /\ UNCHANGED <<audioVars, synthVars>>

\* handleAnimate after generateDancingVideo is rejected
videoFailed ==
  /\ ~ContinuationReady
  /\ pending = "video"
  /\ error' = TRUE
  /\ tipInterval' = FALSE
  /\ isLoading' = FALSE
  /\ pending' = "none"
  /\ appOp' = "videoFailed"
  /\ UNCHANGED <<step, generatedImage, videoUrl, isMusicEnabled, audioManagerRef,
                 videoPlaying, waiting, stopRequested>>
  /\ UNCHANGED <<audioVars, synthVars>>

\* handleReset; the cleanup of the effect calls stop() a second time.
handleReset ==
  /\ ~ContinuationReady
  /\ step = "RESULT"
  /\ (IF audioManagerRef THEN stop ELSE UNCHANGED audioVars)
  /\ step' = "CREATE_ASSET"
  /\ generatedImage' = FALSE
  /\ videoUrl' = FALSE
  /\ error' = FALSE
  /\ videoPlaying' = FALSE
  /\ stopRequested' = TRUE
  /\ appOp' = "handleReset"
  /\ UNCHANGED <<isLoading, isMusicEnabled, audioManagerRef, tipInterval, pending,
                 waiting>>
  /\ UNCHANGED synthVars

\* handleRefineDance; the cleanup of the effect calls stop() a second time.
handleRefineDance ==
  /\ ~ContinuationReady
  /\ step = "RESULT"
  /\ (IF audioManagerRef THEN stop ELSE UNCHANGED audioVars)
  /\ step' = "ANIMATE"
  /\ videoUrl' = FALSE
  /\ error' = FALSE
  /\ videoPlaying' = FALSE
  /\ stopRequested' = TRUE
  /\ appOp' = "handleRefineDance"
  /\ UNCHANGED <<generatedImage, isLoading, isMusicEnabled, audioManagerRef,
                 tipInterval, pending, waiting>>
  /\ UNCHANGED synthVars

\* toggleMusic up to its await, or to its end when the music is turned off
toggleMusic ==
  /\ ~ContinuationReady
  /\ step = "RESULT"
  /\ appOp' = "toggleMusic"
  /\ IF ~audioManagerRef
       THEN UNCHANGED <<audioVars, isMusicEnabled, waiting, stopRequested>>
       ELSE /\ isMusicEnabled' = ~isMusicEnabled
            /\ IF ~isMusicEnabled
                 THEN /\ \E i \in InitCalls :
                           init(i) /\ waiting' = [waiting EXCEPT ![i] = TRUE]
                      /\ stopRequested' = FALSE
                 ELSE /\ stop
                      /\ stopRequested' = TRUE
                      /\ UNCHANGED waiting
  /\ UNCHANGED <<step, generatedImage, videoUrl, isLoading, error, audioManagerRef,
                 tipInterval, pending, videoPlaying>>
  /\ UNCHANGED synthVars

\* The video starts to play: handleVideoPlay up to its await
handleVideoPlay ==
  /\ ~ContinuationReady
  /\ step = "RESULT"
  /\ videoUrl
  /\ ~videoPlaying
  /\ videoPlaying' = TRUE
  /\ stopRequested' = FALSE
  /\ appOp' = "handleVideoPlay"
  /\ IF isMusicEnabled /\ audioManagerRef
       THEN \E i \in InitCalls : init(i) /\ waiting' = [waiting EXCEPT ![i] = TRUE]
       ELSE UNCHANGED <<audioVars, waiting>>
  /\ UNCHANGED <<step, generatedImage, videoUrl, isLoading, error, isMusicEnabled,
                 audioManagerRef, tipInterval, pending>>
  /\ UNCHANGED synthVars

\* The video is paused: handleVideoPause
handleVideoPause ==
  /\ ~ContinuationReady
  /\ step = "RESULT"
  /\ videoPlaying
  /\ videoPlaying' = FALSE
  /\ stopRequested' = TRUE
  /\ appOp' = "handleVideoPause"
  /\ (IF audioManagerRef THEN stop ELSE UNCHANGED audioVars)
  /\ UNCHANGED <<step, generatedImage, videoUrl, isLoading, error, isMusicEnabled,
                 audioManagerRef, tipInterval, pending, waiting>>
  /\ UNCHANGED synthVars

\* toggleMusic or handleVideoPlay after its await of init(): play()
afterInit(i) ==
  /\ waiting[i]
  /\ initPc[i] = "done"
  /\ play
  /\ waiting' = [waiting EXCEPT ![i] = FALSE]
  /\ appOp' = "afterInit"
  /\ UNCHANGED <<step, generatedImage, videoUrl, isLoading, error, isMusicEnabled,
                 audioManagerRef, tipInterval, pending, videoPlaying, stopRequested>>
  /\ UNCHANGED synthVars

\* The resume awaited by init() is fulfilled; the handler continues next.
appResumeResolved(i) ==
  /\ ~ContinuationReady
  /\ resumeResolved(i)
  /\ appOp' = "resumeResolved"
  /\ UNCHANGED <<step, generatedImage, videoUrl, isLoading, error, isMusicEnabled,
                 audioManagerRef, tipInterval, pending, videoPlaying, waiting,
                 stopRequested>>
  /\ UNCHANGED synthVars

\* The resume awaited by init() is rejected: the handler ends with the error.
appResumeRejected(i) ==
  /\ ~ContinuationReady
  /\ resumeRejected(i)
  /\ waiting' = [waiting EXCEPT ![i] = FALSE]
  /\ appOp' = "resumeRejected"
  /\ UNCHANGED <<step, generatedImage, videoUrl, isLoading, error, isMusicEnabled,
                 audioManagerRef, tipInterval, pending, videoPlaying, stopRequested>>
  /\ UNCHANGED synthVars

\* The platform suspends the device of the manager.
appPlatformSuspend ==
  /\ ~ContinuationReady
  /\ audioManagerRef
  /\ platformSuspend
  /\ appOp' = "platformSuspend"
  /\ UNCHANGED <<step, generatedImage, videoUrl, isLoading, error, isMusicEnabled,
                 audioManagerRef, tipInterval, pending, videoPlaying, waiting,
                 stopRequested>>
  /\ UNCHANGED synthVars

AppNext ==
  \/ apiKeyValidated
  \/ handleGenerateImage
  \/ imageGenerated
  \/ imageFailed
  \/ goBack
  \/ handleAnimate
  \/ videoGenerated
  \/ videoFailed
  \/ handleReset
  \/ handleRefineDance
  \/ toggleMusic
  \/ handleVideoPlay
  \/ handleVideoPause
  \/ \E i \in InitCalls : afterInit(i)
  \/ \E i \in InitCalls : appResumeResolved(i)
  \/ \E i \in InitCalls : appResumeRejected(i)
  \/ appPlatformSuspend

AppSpec == AppInit /\ [][AppNext]_vars

\* The steps that belong to an init() call.
InitOps == {"init", "resumeResolved", "resumeRejected"}

\* C1: at most one source node is started and not stopped, and it is the one
\* this.source holds; every other node is stopped and disconnected; a play()
\* that follows a play() leaves exactly one active session, a new one, the
\* earlier one stopped and disconnected.
C1_AtMostOneSession ==
  /\ [](/\ Cardinality(ActiveSessions(nodes)) <= 1
        /\ ActiveSessions(nodes) \subseteq {source}
        /\ \A n \in 1..Len(nodes) :
             n # source => nodes[n].stopped /\ ~nodes[n].connected)
  /\ [][(lastOp = "play" /\ source # NoSource /\ lastOp' = "play") =>
          /\ source' # source
          /\ ActiveSessions(nodes') = {source'}
          /\ nodes'[source].stopped
          /\ ~nodes'[source].connected]_vars

C1_Witness ==
  /\ prevOp = "play"
  /\ lastOp = "play"
  /\ Len(nodes) >= 2
  /\ ActiveSessions(nodes) = {Len(nodes)}

\* C2: generateDiscoLoop() runs at most once, also when init() calls overlap.
C2_SynthAtMostOnce == synthCount <= 1

\* Two init() calls awaited the resume at the same time and both completed.
C2_Witness ==
  /\ synthCount = 1
  /\ initPc[1] = "done"
  /\ initPc[2] = "done"
  /\ prevOp = "resumeResolved"
  /\ lastOp = "resumeResolved"

\* C3: stop() raises nothing and leaves no session active; with no session
\* active it leaves the controller state unchanged.
C3_StopSafe ==
  [][lastOp' = "stop" =>
       /\ ~raised'
       /\ source' = NoSource
       /\ ~isPlaying'
       /\ ActiveSessions(nodes') = {}
       /\ (source = NoSource => UNCHANGED controller)]_vars

\* stop() after a stop() that tore a session down.
C3_Witness ==
  /\ prevOp = "stop"
  /\ lastOp = "stop"
  /\ Len(nodes) >= 1
  /\ source = NoSource

\* C4: play() without a buffer or without a device creates no session,
\* changes no controller state and raises nothing.
C4_PlayNoop ==
  [][(lastOp' = "play" /\ (buffer = NoBuffer \/ ~ctx)) =>
       (UNCHANGED controller /\ ~raised')]_vars

C4_Witness ==
  /\ lastOp = "play"
  /\ ctx
  /\ buffer = NoBuffer
  /\ nodes = <<>>

\* C5: a failed resume is not surfaced by init(): the call completes without
\* an error, the device stays suspended and no session is created.
C5_ResumeFailureSwallowed ==
  [][lastOp' = "resumeRejected" =>
       /\ ~raised'
       /\ \A i \in InitCalls : initPc'[i] # "rejected"
       /\ ctxState' = "suspended"
       /\ nodes' = nodes
       /\ source' = source]_vars

\* C6: after an init() whose resume failed, play() creates no session until
\* an init() has completed.
C6_PlayNoopAfterFailedResume ==
  [][(resumeFailedSince /\ lastOp' = "play") =>
       (nodes' = nodes /\ source' = source /\ isPlaying' = isPlaying)]_vars

\* C7: without a device no operation raises, and the controller keeps no
\* device, no buffer and no session.
C7_NoDeviceNoop ==
  ~ctx =>
    /\ ~raised
    /\ ctxState = "none"
    /\ ~gainNode
    /\ buffer = NoBuffer
    /\ source = NoSource
    /\ ~isPlaying
    /\ nodes = <<>>
    /\ synthCount = 0
    /\ \A i \in InitCalls : initPc[i] \in {"idle", "done"}

\* init(), setVolume(5), play() and stop() have all been called without a device.
C7_Witness ==
  /\ ~ctx
  /\ initPc[1] = "done"
  /\ lastArg = 5
  /\ prevOp = "play"
  /\ lastOp = "stop"

\* C8: when an init() call completes on a controller with a device, the
\* device is running and the buffer exists; no step of init() changes the
\* session or the gain, or replaces a buffer that exists.
C8_InitEnsuresAndIdempotent ==
  [][/\ \A i \in InitCalls :
          (ctx /\ initPc[i] # "done" /\ initPc'[i] = "done") =>
            (ctxState' = "running" /\ buffer' # NoBuffer)
     /\ lastOp' \in InitOps =>
          /\ source' = source
          /\ isPlaying' = isPlaying
          /\ nodes' = nodes
          /\ gainValue' = gainValue
          /\ (buffer # NoBuffer => buffer' = buffer)]_vars

\* A second init() completed, after its resume, while a session is active.
C8_Witness ==
  /\ ctx
  /\ initPc[1] = "done"
  /\ initPc[2] = "done"
  /\ lastOp = "resumeResolved"
  /\ source # NoSource
  /\ buffer # NoBuffer

\* C9: setVolume(level) sets the gain to level and changes nothing else of
\* the controller; no other step changes the gain; setVolume(0) followed by
\* play() after init gives an active session connected to the gain node at
\* gain 0, the buffer kept.
C9_SetVolumeFrame ==
  [][/\ lastOp' = "setVolume" =>
          /\ (gainNode => gainValue' = lastArg')
          /\ UNCHANGED <<ctx, ctxState, buffer, source, isPlaying, gainNode, nodes>>
     /\ lastOp' # "setVolume" => gainValue' = gainValue
     /\ (lastOp = "setVolume" /\ lastArg = 0 /\ lastOp' = "play"
           /\ ctx /\ buffer # NoBuffer) =>
          /\ source' # NoSource
          /\ ActiveSessions(nodes') = {source'}
          /\ nodes'[source'].connected
          /\ nodes'[source'].buffer = buffer
          /\ gainValue' = 0
          /\ buffer' = buffer]_vars

C9_Witness ==
  /\ prevOp = "setVolume"
  /\ lastArg = 0
  /\ lastOp = "play"
  /\ source # NoSource
  /\ gainValue = 0
  /\ buffer # NoBuffer

\* C10: the gain of the controller lies within [0.0, 1.0].
C10_GainWithinRange == gainNode => (0 <= gainValue /\ gainValue <= UnityGain)

\* C11: a buffer, once synthesized, is never replaced or cleared by any step,
\* stop() included, and every source node created by play() holds that
\* buffer with loop = true.
C11_BufferKept ==
  /\ [](\A n \in 1..Len(nodes) :
          /\ buffer # NoBuffer
          /\ nodes[n].buffer = buffer
          /\ nodes[n].loop)
  /\ [][buffer # NoBuffer => buffer' = buffer]_vars

\* Two sessions were created and stopped, and a later init() completed.
C11_Witness ==
  /\ lastOp = "stop"
  /\ Len(nodes) >= 2
  /\ initPc[2] = "done"
  /\ buffer # NoBuffer
  /\ nodes[1].buffer = buffer
  /\ nodes[2].buffer = buffer

\* C12: both channels have the length round(sampleRate * 5.0), which is
\* 220500 at 44100 Hz; every sample written to either channel is the limited
\* mix 0.8 kick + 0.6 hat + 0.5 bass and lies within [-1.0, 1.0]; the loop
\* writes every index.
C12_LengthAndRange ==
  /\ BufferLength(44100) = 220500
  /\ synthPc \in {"loop", "returned"} =>
       /\ leftLen = 5 * sampleRate
       /\ rightLen = 5 * sampleRate
       /\ sIdx <= leftLen
  /\ synthPc = "returned" => sIdx = leftLen
  /\ sIdx > 0 =>
       LET mix == (8 * kick + 6 * hat + 5 * bass) \div 10
       IN  /\ leftSample = (IF mix > 1000 THEN 1000 ELSE IF mix < -1000 THEN -1000 ELSE mix)
           /\ rightSample = leftSample
  /\ -1000 <= leftSample /\ leftSample <= 1000
  /\ -1000 <= rightSample /\ rightSample <= 1000

\* A whole buffer was written at the highest sample rate.
C12_Witness ==
  /\ synthPc = "returned"
  /\ sampleRate = 4 * MaxRateStep
  /\ sIdx = 5 * sampleRate
  /\ leftLen = sIdx

C14_BassRoot ==
  (synthPc = "loop" /\ sIdx > 0) =>
    LET mp == (sIdx - 1) % (2 * sampleRate)
    IN  bassFreq = IF mp >= sampleRate /\ 4 * mp < 5 * sampleRate THEN 9800
                   ELSE IF 4 * mp > 7 * sampleRate THEN 7342
                   ELSE 4900

\* C15: the periods of the kick, of the hi-hat (0.5 s) and of the bass
\* pattern (2.0 s) divide the 5 s of the buffer, so that the index after the
\* last one has, in each pattern, the position of the index 0.
C15_PeriodsDivideBuffer ==
  synthPc = "returned" =>
    /\ (2 * Duration) % 1 = 0
    /\ (2 * Duration) % 4 = 0
    /\ BeatPos(leftLen, sampleRate) = BeatPos(0, sampleRate)
    /\ HalfBeatPos(leftLen, sampleRate) = HalfBeatPos(0, sampleRate)
    /\ IsOffBeat(leftLen, sampleRate) = IsOffBeat(0, sampleRate)
    /\ MeasurePos(leftLen, sampleRate) = MeasurePos(0, sampleRate)

\* C16: after a handler that no longer wants playback has called stop(), no
\* session is active until a later video-play event or music-on toggle, also
\* when an init() started before that stop() is still in flight.
C16_NoPlaybackAfterStop == stopRequested => ActiveSessions(nodes) = {}

\* The catch blocks of handleGenerateImage and handleAnimate.
Failures == {"imageFailed", "videoFailed"}

\* C17: a generation that settles leaves isLoading false and, for a video,
\* the tip interval cleared; on an error the step and the assets are left as
\* they were and an error is set; on success no error is set and the step is
\* ANIMATE after an image, RESULT after a video.
C17_GenerationSettles ==
  [][(pending # "none" /\ pending' = "none") =>
       /\ isLoading' = FALSE
       /\ (pending = "video" => tipInterval' = FALSE)
       /\ appOp' \in Failures =>
            /\ error'
            /\ step' = step
            /\ generatedImage' = generatedImage
            /\ videoUrl' = videoUrl
       /\ appOp' \notin Failures =>
            /\ ~error'
            /\ pending = "image" => (step' = "ANIMATE" /\ generatedImage')
            /\ pending = "video" => (step' = "RESULT" /\ videoUrl')]_vars

\* A video generation failed after an image generation succeeded.
C17_Witness ==
  /\ appOp = "videoFailed"
  /\ step = "ANIMATE"
  /\ generatedImage
  /\ error
  /\ ~isLoading
  /\ ~tipInterval

====
